---- MODULE Spec2Model ----
(***************************************************************************)
(* Model of scripts/build-snapshot.js: the lost-and-found snapshot build.  *)
(* One invocation of main() fetches the approved and resolved reports from *)
(* the remote collection lostItems, normalises them, renders index.html    *)
(* and writes index.html and data.json into dist/.  The file holds two     *)
(* variants of the script; variant 2 adds the area list and facebookLink,  *)
(* and a script in the page that filters the cards by area in the browser. *)
(*                                                                         *)
(* A JavaScript string is a sequence of one-character strings.  A stored   *)
(* field value is a record [t, s]: t is the JavaScript type of the value   *)
(* ("undef" for a missing field, "null", "str", "num") and s its text.     *)
(***************************************************************************)
EXTENDS Integers, Sequences, FiniteSets, TLC

\* ---------------------------------------------------------------- bounds
\* Number of invocations of the script the scheduler makes in one behaviour.
MaxRuns == 2
\* Last value of the wall clock (the clock advances while I/O is pending).
MaxClock == 2

\* ------------------------------------------------------ program constants
\* .limit(100) of the query.
QueryLimit == 100
\* truncateText(..., 120) in the card template.
DescMaxLength == 120

\* --------------------------------------------------------------- strings
Rep(c, n) == [i \in 1..n |-> c]

S_http == <<"h", "t", "t", "p">>
S_lostItemsPrefix == <<"l", "o", "s", "t", "-", "i", "t", "e", "m", "s", "/">>
S_storagePath == <<"/", "s", "t", "o", "r", "a", "g", "e", "/", "v", "1", "/", "o", "b", "j", "e", "c", "t", "/", "p", "u", "b", "l", "i", "c", "/", "l", "o", "s", "t", "-", "i", "t", "e", "m", "s", "/">>
S_undefined == <<"u", "n", "d", "e", "f", "i", "n", "e", "d">>
S_ellipsis == <<".", ".", ".">>
S_amp == <<"&", "a", "m", "p", ";">>
S_lt == <<"&", "l", "t", ";">>
S_gt == <<"&", "g", "t", ";">>
S_quot == <<"&", "q", "u", "o", "t", ";">>
S_apos == <<"&", "#", "0", "3", "9", ";">>
S_EiNimea == <<"E", "i", " ", "n", "i", "m", "e", "ä">>
S_Tuntematon == <<"T", "u", "n", "t", "e", "m", "a", "t", "o", "n">>
S_OTHER == <<"O", "T", "H", "E", "R">>
S_KEYS == <<"K", "E", "Y", "S">>
S_Avaimet == <<"A", "v", "a", "i", "m", "e", "t">>
S_Muu == <<"M", "u", "u">>
S_APPROVED == <<"A", "P", "P", "R", "O", "V", "E", "D">>
S_RESOLVED == <<"R", "E", "S", "O", "L", "V", "E", "D">>
S_PENDING == <<"P", "E", "N", "D", "I", "N", "G">>
S_approved == <<"a", "p", "p", "r", "o", "v", "e", "d">>
S_resolved == <<"r", "e", "s", "o", "l", "v", "e", "d">>
S_Avoin == <<"A", "v", "o", "i", "n">>
S_Ratkaistu == <<"R", "a", "t", "k", "a", "i", "s", "t", "u">>
S_local == <<"l", "o", "c", "a", "l">>

\* The elements of a sequence.
Range(seq) == {seq[i] : i \in 1..Len(seq)}

\* String.prototype.includes(sub)
Includes(s, sub) ==
    \E i \in 1..(Len(s) - Len(sub) + 1) : SubSeq(s, i, i + Len(sub) - 1) = sub

\* String.prototype.indexOf(sub), one-based; 0 when sub does not occur.
IndexOf(s, sub) ==
    IF Includes(s, sub)
    THEN CHOOSE i \in 1..(Len(s) - Len(sub) + 1) :
            /\ SubSeq(s, i, i + Len(sub) - 1) = sub
            /\ \A j \in 1..(i - 1) : SubSeq(s, j, j + Len(sub) - 1) # sub
    ELSE 0

\* String.prototype.replace(sub, rep) with a string pattern: the first
\* occurrence only, wherever it is.
ReplaceFirst(s, sub, rep) ==
    LET i == IndexOf(s, sub)
    IN  IF i = 0 THEN s
        ELSE SubSeq(s, 1, i - 1) \o rep \o SubSeq(s, i + Len(sub), Len(s))

\* String.prototype.replace(/c/g, rep): every occurrence of the character c.
\* (The argument is evaluated once; the images of its characters are then
\* concatenated by halves, left to right.)
ReplaceAll(s, c, rep) ==
    [x \in {s} |->
        LET RA[lo \in 1..(Len(x) + 1), hi \in 0..Len(x)] ==
                IF lo > hi THEN <<>>
                ELSE IF lo = hi THEN (IF x[lo] = c THEN rep ELSE <<x[lo]>>)
                ELSE RA[lo, (lo + hi) \div 2] \o RA[((lo + hi) \div 2) + 1, hi]
        IN  RA[1, Len(x)]][s]

\* String.prototype.substring(0, n)
Substring0(s, n) == SubSeq(s, 1, IF n < Len(s) THEN n ELSE Len(s))

\* ---------------------------------------------------------------- values
Undef == [t |-> "undef", s |-> <<>>]
Null == [t |-> "null", s |-> <<>>]
Str(s) == [t |-> "str", s |-> s]
Num(s) == [t |-> "num", s |-> s]

\* JavaScript truthiness of a stored value (the numbers used are non-zero).
Truthy(v) == \/ v.t = "num"
             \/ v.t = "str" /\ v.s # <<>>

\* a || dflt
OrElse(v, dflt) == IF Truthy(v) THEN v ELSE dflt

\* String(v), as a template literal or a comparison converts a value.
ToStr(v) == CASE v.t = "undef" -> S_undefined
              [] v.t = "null" -> <<"n", "u", "l", "l">>
              [] OTHER -> v.s

\* The characters of the model in ascending UTF-16 code unit order.
Alphabet == <<" ", "\"", "#", "&", "'", "-", ".", "/",
      "0", "1", "2", "3", "4", "5", "6", "7", "8", "9", ":", ";", "<", ">", "?",
      "A", "B", "C", "D", "E", "F", "G", "H", "I", "J", "K", "L", "M", "N", "O",
      "P", "Q", "R", "S", "T", "U", "V", "W", "X", "Y", "Z",
      "a", "b", "c", "d", "e", "f", "g", "h", "i", "j", "k", "l", "m", "n", "o",
      "p", "q", "r", "s", "t", "u", "v", "w", "x", "y", "z", "ä">>

CharCode(c) == CHOOSE i \in 1..Len(Alphabet) : Alphabet[i] = c

\* a < b in the order Array.prototype.sort() uses by default (code units).
RECURSIVE StrLess(_, _)
StrLess(a, b) ==
    IF b = <<>> THEN FALSE
    ELSE IF a = <<>> THEN TRUE
    ELSE IF Head(a) = Head(b) THEN StrLess(Tail(a), Tail(b))
    ELSE CharCode(Head(a)) < CharCode(Head(b))

\* String.prototype.toLowerCase() on the letters of the status values.
LowerChar(c) == CASE c = "A" -> "a" [] c = "P" -> "p" [] c = "R" -> "r"
                  [] c = "O" -> "o" [] c = "V" -> "v" [] c = "E" -> "e"
                  [] c = "D" -> "d" [] c = "S" -> "s" [] c = "L" -> "l"
                  [] OTHER -> c

ToLowerCase(s) == [i \in 1..Len(s) |-> LowerChar(s[i])]

\* ------------------------------------------------- the remote collection
\* A document of collection lostItems: its id and its stored fields.  The
\* timestamp field is a Firestore Timestamp, given in seconds.
Doc(id, status, ts, title, description, area, category, imageUrl1, facebookLink) ==
    [id |-> id,
     data |-> [status |-> status, timestamp |-> ts, title |-> title,
               description |-> description, area |-> area, category |-> category,
               imageUrl1 |-> imageUrl1, facebookLink |-> facebookLink]]

D1 == Doc(<<"d", "1">>, Str(S_APPROVED), 10, Str(<<"A", "v", "a", "i", "n">>),
          Str(<<"s", "h", "o", "r", "t">>), Str(<<"K", "u", "m", "p", "u", "l", "a">>),
          Str(S_KEYS),
          Str(<<"l", "o", "s", "t", "-", "i", "t", "e", "m", "s", "/", "a", "b", "c", ".", "j", "p", "g">>),
          Undef)
D2 == Doc(<<"d", "2">>, Str(S_RESOLVED), 20, Str(<<"<", "b", ">", "\"", "R", "'", "&">>),
          Str(Rep("a", DescMaxLength + 1)), Str(<<"A", "&", "B">>),
          Str(<<"<", "i", ">">>),
          Str(<<"h", "t", "t", "p", ":", "/", "/", "h", "/", "i", ".", "j", "p", "g", "?", "a", "&", "b">>),
          Str(<<"h", "t", "t", "p", ":", "/", "/", "f", "/", "?", "a", "&", "b">>))
D3 == Doc(<<"d", "3">>, Str(S_APPROVED), 30, Undef,
          Str(Rep("a", DescMaxLength - 1) \o <<"&">>), Null, Undef, Undef, Null)
D4 == Doc(<<"d", "4">>, Str(S_PENDING), 40, Str(<<"L", "o", "m", "p", "a", "k", "k", "o">>),
          Str(<<>>), Str(<<"A", "r", "a", "b", "i", "a">>), Str(S_OTHER), Null, Undef)
D5 == Doc(<<"d", "5">>, Str(S_APPROVED), 50, Num(<<"4", "2">>),
          Undef, Str(<<"A", "r", "a", "b", "i", "a">>), Str(S_OTHER), Null, Undef)
D6 == Doc(<<"d", "6">>, Str(S_APPROVED), 15, Str(<<"K", "o", "r", "u">>),
          Undef, Str(<<"A", "r", "a", "b", "i", "a">>), Undef, Num(<<"7">>), Undef)
D7 == Doc(<<"d", "7">>, Str(S_RESOLVED), 70, Str(<<"<">>),
          Str(Rep("a", DescMaxLength)), Str(<<"K", "u", "m", "p", "u", "l", "a">>),
          Str(S_KEYS),
          Str(<<"x", "/", "l", "o", "s", "t", "-", "i", "t", "e", "m", "s", "/", "y", ".", "j", "p", "g">>),
          Str(<<"h", "t", "t", "p", ":", "/", "/", "f", "/", "?", "a", "&", "b">>))

Digit(d) == <<"0", "1", "2", "3", "4", "5", "6", "7", "8", "9">>[d + 1]

\* The k-th document of a large collection: every tenth is still PENDING.
BigDoc(k) ==
    Doc(<<"n", Digit(k \div 100), Digit((k \div 10) % 10), Digit(k % 10)>>,
        Str(IF k % 10 = 0 THEN S_PENDING ELSE IF k % 2 = 0 THEN S_RESOLVED ELSE S_APPROVED),
        1000 + k, Str(<<"T">>), Str(<<>>),
        Str(IF k % 3 = 0 THEN <<"A", "r", "a", "b", "i", "a">> ELSE <<"K", "u", "m", "p", "u", "l", "a">>),
        Str(S_OTHER), Null, Undef)

\* 112 documents, 101 of them APPROVED or RESOLVED: one more than the limit.
BigStore == {BigDoc(k) : k \in 1..(QueryLimit + 12)}

\* The contents the collection may have when an invocation queries it.
StorePool == { {}, {D1}, {D1, D2, D3, D4, D7}, {D1, D5}, {D2, D6} }

\* The same for a deployment whose collection has grown past the limit.
LargeStorePool == StorePool \cup {BigStore}


\* The process environment of one invocation.
\*   credOk: FIREBASE_SERVICE_ACCOUNT_JSON parses and is accepted
\*   SUPABASE_URL, BUILD_TIMESTAMP: the variable's value, Undef when unset
EnvPool ==
    { [credOk |-> TRUE,
       SUPABASE_URL |-> Str(<<"h", "t", "t", "p", "s", ":", "/", "/", "x", ".", "e", "x", "a", "m", "p", "l", "e", "/", "s", "t", "o", "r", "a", "g", "e">>),
       BUILD_TIMESTAMP |-> Str(<<"b", "7">>)],
      [credOk |-> TRUE, SUPABASE_URL |-> Undef, BUILD_TIMESTAMP |-> Undef],
      [credOk |-> FALSE,
       SUPABASE_URL |-> Str(<<"h", "t", "t", "p", "s", ":", "/", "/", "x", ".", "e", "x", "a", "m", "p", "l", "e", "/", "s", "t", "o", "r", "a", "g", "e">>),
       BUILD_TIMESTAMP |-> Undef] }

\* .where("status", "in", ["APPROVED", "RESOLVED"])
WhereStatusIn(store) ==
    {d \in store : d.data.status \in {Str(S_APPROVED), Str(S_RESOLVED)}}

\* Whether document e comes before document d under
\* .orderBy("timestamp", "desc"): later timestamp first, equal timestamps
\* by document id, descending as well.
Before(e, d) ==
    \/ e.data.timestamp > d.data.timestamp
    \/ e.data.timestamp = d.data.timestamp /\ StrLess(d.id, e.id)

\* .orderBy("timestamp", "desc"): each document stands after the documents
\* that come before it.
OrderByTimestampDesc(S) ==
    [i \in 1..Cardinality(S) |->
        CHOOSE d \in S : Cardinality({e \in S : Before(e, d)}) = i - 1]

\* A query without its limit.
LimitIgnored(seq, n) == seq

\* .limit(n)
Limit(seq, n) == SubSeq(seq, 1, IF Len(seq) < n THEN Len(seq) ELSE n)

\* The snapshot the query returns: the documents in result order.
QuerySnapshot(store) == Limit(OrderByTimestampDesc(WhereStatusIn(store)), QueryLimit)

\* Each of these contents with the snapshot the query returns for it.
Queries == {[store |-> st, snap |-> QuerySnapshot(st)] : st \in StorePool}

LargeQueries == {[store |-> st, snap |-> QuerySnapshot(st)] : st \in LargeStorePool}

\* ------------------------------------------------------------ fetchData
\* toISOString() of an instant: the ISO-8601 text is identified by the instant.
Iso(t) == [iso |-> t]

\* The image reference of a document resolved to a URL.
ResolveImageUrl(data, env) ==
    IF ~Truthy(data.imageUrl1) THEN Null
    ELSE IF Includes(data.imageUrl1.s, S_http) THEN data.imageUrl1
    ELSE Str(ToStr(env.SUPABASE_URL) \o S_storagePath
             \o ReplaceFirst(data.imageUrl1.s, S_lostItemsPrefix, <<>>))

\* The callback of snapshot.forEach throws when imageUrl1 is truthy and has no
\* includes method (a stored number).
NormaliseThrows(doc) == Truthy(doc.data.imageUrl1) /\ doc.data.imageUrl1.t # "str"

\* A normalisation that copies the stored fields without their defaults.
NormaliseKeepsStored(doc, env, v) ==
    [id |-> doc.id,
     title |-> doc.data.title,
     description |-> doc.data.description,
     area |-> doc.data.area,
     category |-> doc.data.category,
     status |-> doc.data.status,
     timestamp |-> Iso(doc.data.timestamp),
     imageUrl |-> ResolveImageUrl(doc.data, env),
     facebookLink |-> IF v = 2 THEN OrElse(doc.data.facebookLink, Null) ELSE Undef]

\* The item pushed for one document.  The documents of the query carry a
\* Timestamp, so toDate().toISOString() gives the stored instant.
Normalise(doc, env, v) ==
    [id |-> doc.id,
     title |-> OrElse(doc.data.title, Str(S_EiNimea)),
     description |-> OrElse(doc.data.description, Str(<<>>)),
     area |-> OrElse(doc.data.area, Str(S_Tuntematon)),
     category |-> OrElse(doc.data.category, Str(S_OTHER)),
     status |-> OrElse(doc.data.status, Str(S_APPROVED)),
     timestamp |-> Iso(doc.data.timestamp),
     imageUrl |-> ResolveImageUrl(doc.data, env),
     facebookLink |-> IF v = 2 THEN OrElse(doc.data.facebookLink, Null) ELSE Undef]

\* The areas from the last to the first.
SortAreasDescending(S) ==
    [i \in 1..Cardinality(S) |->
        CHOOSE a \in S : Cardinality({b \in S : StrLess(ToStr(a), ToStr(b))}) = i - 1]

\* Array.from(areasSet).sort()
RECURSIVE SortAreas(_)
SortAreas(S) ==
    IF S = {} THEN <<>>
    ELSE LET m == CHOOSE a \in S : \A b \in S : ~StrLess(ToStr(b), ToStr(a))
         IN  <<m>> \o SortAreas(S \ {m})

EmptyResult == [items |-> <<>>, areas |-> <<>>]

\* Whether the try block of fetchData throws: the credential is rejected, the
\* query fails, or the normalisation of a returned document throws.
FetchThrows(snap, env, queryOk) ==
    \/ ~env.credOk
    \/ ~queryOk
    \/ \E i \in 1..Len(snap) : NormaliseThrows(snap[i])

\* fetchData with the catch returning what was normalised before the throw.
fetchDataKeepsPartial(snap, env, queryOk, v) ==
    IF ~env.credOk \/ ~queryOk THEN EmptyResult
    ELSE LET good == {i \in 1..Len(snap) : \A j \in 1..i : ~NormaliseThrows(snap[j])}
             items == [i \in 1..Cardinality(good) |-> Normalise(snap[i], env, v)]
         IN  [items |-> items, areas |-> <<>>]

\* fetchData with a callback that skips a document it cannot normalise.
fetchDataSkipsFailing(snap, env, queryOk, v) ==
    IF ~env.credOk \/ ~queryOk THEN EmptyResult
    ELSE LET good == SelectSeq(snap, LAMBDA d : ~NormaliseThrows(d))
             items == [i \in 1..Len(good) |-> Normalise(good[i], env, v)]
         IN  [items |-> items,
              areas |-> IF v = 2 THEN SortAreas({items[i].area : i \in 1..Len(items)})
                        ELSE <<>>]

\* What fetchData returns when the query, if it is reached and succeeds
\* (queryOk), returns the snapshot snap.  Variant 1 returns the item list
\* alone: areas stays empty there.
fetchData(snap, env, queryOk, v) ==
    IF FetchThrows(snap, env, queryOk) THEN EmptyResult
    ELSE LET items == [i \in 1..Len(snap) |-> Normalise(snap[i], env, v)]
         IN  [items |-> items,
              areas |-> IF v = 2 THEN SortAreas({items[i].area : i \in 1..Len(items)})
                        ELSE <<>>]

\* --------------------------------------------------------- generateHtml
\* escapeHtml(text) for a falsy or string argument.
escapeHtml(text) ==
    IF ~Truthy(text) THEN <<>>
    ELSE ReplaceAll(ReplaceAll(ReplaceAll(ReplaceAll(ReplaceAll(text.s,
            "&", S_amp), "<", S_lt), ">", S_gt), "\"", S_quot), "'", S_apos)

\* truncateText(text, maxLength) for a string argument.
truncateText(text, maxLength) ==
    IF text = <<>> THEN <<>>
    ELSE IF Len(text) <= maxLength THEN text
    ELSE Substring0(text, maxLength) \o S_ellipsis

CategoryMap ==
    [k \in { S_KEYS, S_OTHER,
             <<"E", "L", "E", "C", "T", "R", "O", "N", "I", "C", "S">>,
             <<"C", "L", "O", "T", "H", "I", "N", "G">>,
             <<"D", "O", "C", "U", "M", "E", "N", "T", "S">>,
             <<"W", "A", "L", "L", "E", "T">>,
             <<"J", "E", "W", "E", "L", "R", "Y">>,
             <<"B", "A", "G">> } |->
        CASE k = S_KEYS -> S_Avaimet
          [] k = S_OTHER -> S_Muu
          [] k = <<"E", "L", "E", "C", "T", "R", "O", "N", "I", "C", "S">>
                -> <<"E", "l", "e", "k", "t", "r", "o", "n", "i", "i", "k", "k", "a">>
          [] k = <<"C", "L", "O", "T", "H", "I", "N", "G">>
                -> <<"V", "a", "a", "t", "t", "e", "e", "t">>
          [] k = <<"D", "O", "C", "U", "M", "E", "N", "T", "S">>
                -> <<"A", "s", "i", "a", "k", "i", "r", "j", "a", "t">>
          [] k = <<"W", "A", "L", "L", "E", "T">>
                -> <<"L", "o", "m", "p", "a", "k", "k", "o">>
          [] k = <<"J", "E", "W", "E", "L", "R", "Y">> -> <<"K", "o", "r", "u">>
          [] OTHER -> <<"L", "a", "u", "k", "k", "u">>]

\* map[category] || category, as the template then prints it.
getCategoryName(category) ==
    IF ToStr(category) \in DOMAIN CategoryMap THEN CategoryMap[ToStr(category)]
    ELSE ToStr(category)

\* escapeHtml throws on a truthy value that is no string (text.replace is
\* not a function); generateHtml passes it title, area, description and,
\* in variant 2, a truthy facebookLink.
EscapeThrows(text) == Truthy(text) /\ text.t # "str"

RenderThrows(data, v) ==
    \E i \in 1..Len(data.items) :
        \/ EscapeThrows(data.items[i].title)
        \/ EscapeThrows(data.items[i].area)
        \/ EscapeThrows(data.items[i].description)
        \/ data.items[i].status.t # "str"
        \/ v = 2 /\ EscapeThrows(data.items[i].facebookLink)

\* One <article class="item-card"> of the page: the text put into each slot
\* of the template.  imgSrc is Null when the placeholder block is rendered,
\* fbHref when no Facebook link is rendered, dataArea in variant 1.
Card(item, v) ==
    [dataId |-> item.id,
     dataCategory |-> ToStr(item.category),
     dataArea |-> IF v = 2 THEN Str(escapeHtml(item.area)) ELSE Null,
     imgSrc |-> IF Truthy(item.imageUrl) THEN Str(ToStr(item.imageUrl)) ELSE Null,
     alt |-> escapeHtml(item.title),
     statusClass |-> <<"s", "t", "a", "t", "u", "s", "-">> \o ToLowerCase(item.status.s),
     statusLabel |-> IF item.status = Str(S_APPROVED) THEN S_Avoin ELSE S_Ratkaistu,
     title |-> escapeHtml(item.title),
     fbHref |-> IF v = 2 /\ Truthy(item.facebookLink)
                THEN Str(escapeHtml(item.facebookLink)) ELSE Null,
     area |-> escapeHtml(item.area),
     categoryName |-> getCategoryName(item.category),
     description |-> truncateText(escapeHtml(item.description), DescMaxLength),
     idText |-> item.id]

\* process.env.BUILD_TIMESTAMP || "local"
BuildId(env) == ToStr(OrElse(env.BUILD_TIMESTAMP, Str(S_local)))

CountIf(items, P(_)) == Cardinality({i \in 1..Len(items) : P(items[i])})

IsApproved(item) == item.status = Str(S_APPROVED)
IsResolved(item) == item.status = Str(S_RESOLVED)
HasFacebook(item) == Truthy(item.facebookLink)

\* The page generateHtml returns when it does not throw, read at `now`.
\* emptyState tells that the empty-state message stands in place of the cards.
generateHtml(data, now, env, v) ==
    [date |-> now,
     itemCount |-> Len(data.items),
     approvedCount |-> CountIf(data.items, IsApproved),
     resolvedCount |-> CountIf(data.items, IsResolved),
     uniqueAreas |-> IF v = 2 THEN Len(data.areas)
                     ELSE Cardinality({a \in {data.items[i].area : i \in 1..Len(data.items)} :
                                         Truthy(a)}),
     facebookCount |-> IF v = 2 THEN CountIf(data.items, HasFacebook) ELSE 0,
     areaOptions |-> IF v = 2
                     THEN [i \in 1..Len(data.areas) |-> escapeHtml(data.areas[i])]
                     ELSE <<>>,
     selectedAreaCount |-> IF v = 2 THEN Len(data.items) ELSE 0,
     emptyState |-> Len(data.items) = 0,
     cards |-> IF Len(data.items) = 0 THEN <<>>
               ELSE [i \in 1..Len(data.items) |-> Card(data.items[i], v)],
     buildId |-> BuildId(env)]

\* ------------------------------------------------------------ data.json
\* The object main serialises into data.json, read at `now`.
JsonItem(item, v) ==
    [id |-> item.id, title |-> item.title, area |-> item.area,
     category |-> item.category, status |-> item.status,
     description |-> item.description, imageUrl |-> item.imageUrl,
     facebookLink |-> IF v = 2 THEN item.facebookLink ELSE Undef,
     timestamp |-> item.timestamp]

\* A jsonData that leaves the resolved items out.
jsonDataOmitsResolved(data, now, env, v) ==
    [timestamp |-> Iso(now),
     buildId |-> BuildId(env),
     items |-> SelectSeq([i \in 1..Len(data.items) |-> JsonItem(data.items[i], v)], IsApproved),
     areas |-> IF v = 2 THEN data.areas ELSE <<>>]

jsonData(data, now, env, v) ==
    [timestamp |-> Iso(now),
     buildId |-> BuildId(env),
     items |-> [i \in 1..Len(data.items) |-> JsonItem(data.items[i], v)],
     areas |-> IF v = 2 THEN data.areas ELSE <<>>]

\* ------------------------------------------------- the script of the page
\* Whether sub stands at position i of s.
StartsAt(s, i, sub) ==
    i + Len(sub) - 1 <= Len(s) /\ SubSeq(s, i, i + Len(sub) - 1) = sub

\* The pieces of s between the occurrences of the character c, in order.
Split(s, c) ==
    LET cuts == {i \in 1..Len(s) : s[i] = c} \cup {0, Len(s) + 1}
        Cut(j) == CHOOSE a \in cuts : Cardinality({b \in cuts : b < a}) = j - 1
    IN  [j \in 1..(Cardinality(cuts) - 1) |-> SubSeq(s, Cut(j) + 1, Cut(j + 1) - 1)]

\* The character references the page uses, with the character each denotes.
Entities ==
    << [e |-> S_amp, c |-> "&"], [e |-> S_lt, c |-> "<"], [e |-> S_gt, c |-> ">"],
       [e |-> S_quot, c |-> "\""], [e |-> S_apos, c |-> "'"] >>

\* The value the HTML parser gives an attribute written as s: each character
\* reference is replaced by its character, left to right.
DecodeHtml(s) ==
    [x \in {s} |->
        LET D[i \in 1..(Len(x) + 1)] ==
                IF i > Len(x) THEN <<>>
                ELSE IF \E k \in 1..Len(Entities) : StartsAt(x, i, Entities[k].e)
                THEN LET k == CHOOSE k \in 1..Len(Entities) : StartsAt(x, i, Entities[k].e)
                     IN  <<Entities[k].c>> \o D[i + Len(Entities[k].e)]
                ELSE <<x[i]>> \o D[i + 1]
        IN  D[1]][s]

\* The characters of the model that encodeURIComponent escapes, with the
\* escape of the UTF-8 bytes of each.
PercentCodes ==
    << [c |-> " ", code |-> <<"%", "2", "0">>], [c |-> "\"", code |-> <<"%", "2", "2">>],
       [c |-> "#", code |-> <<"%", "2", "3">>], [c |-> "%", code |-> <<"%", "2", "5">>],
       [c |-> "&", code |-> <<"%", "2", "6">>], [c |-> "+", code |-> <<"%", "2", "B">>],
       [c |-> "/", code |-> <<"%", "2", "F">>], [c |-> ":", code |-> <<"%", "3", "A">>],
       [c |-> ";", code |-> <<"%", "3", "B">>], [c |-> "<", code |-> <<"%", "3", "C">>],
       [c |-> "=", code |-> <<"%", "3", "D">>], [c |-> ">", code |-> <<"%", "3", "E">>],
       [c |-> "?", code |-> <<"%", "3", "F">>],
       [c |-> "ä", code |-> <<"%", "C", "3", "%", "A", "4">>] >>

\* encodeURIComponent(s)
EncodeURIComponent(s) ==
    [x \in {s} |->
        LET E[i \in 1..(Len(x) + 1)] ==
                IF i > Len(x) THEN <<>>
                ELSE IF \E k \in 1..Len(PercentCodes) : PercentCodes[k].c = x[i]
                THEN LET k == CHOOSE k \in 1..Len(PercentCodes) : PercentCodes[k].c = x[i]
                     IN  PercentCodes[k].code \o E[i + 1]
                ELSE <<x[i]>> \o E[i + 1]
        IN  E[1]][s]

\* The decoding URLSearchParams applies to a name or a value: "+" is a
\* space, a percent escape is its character.
FormDecode(s) ==
    [x \in {s} |->
        LET D[i \in 1..(Len(x) + 1)] ==
                IF i > Len(x) THEN <<>>
                ELSE IF x[i] = "+" THEN <<" ">> \o D[i + 1]
                ELSE IF \E k \in 1..Len(PercentCodes) : StartsAt(x, i, PercentCodes[k].code)
                THEN LET k == CHOOSE k \in 1..Len(PercentCodes) :
                                  StartsAt(x, i, PercentCodes[k].code)
                     IN  <<PercentCodes[k].c>> \o D[i + Len(PercentCodes[k].code)]
                ELSE <<x[i]>> \o D[i + 1]
        IN  D[1]][s]

\* One name=value piece of a query string as a pair of decoded texts.
FormPair(piece) ==
    LET eq == IndexOf(piece, <<"=">>)
    IN  IF eq = 0 THEN [name |-> FormDecode(piece), value |-> <<>>]
        ELSE [name |-> FormDecode(SubSeq(piece, 1, eq - 1)),
              value |-> FormDecode(SubSeq(piece, eq + 1, Len(piece)))]

\* new URLSearchParams(query).get(name): the value of the first pair of that
\* name, Null when there is none.
UrlParamsGet(query, name) ==
    LET pieces == SelectSeq(Split(query, "&"), LAMBDA p : p # <<>>)
        hits == {j \in 1..Len(pieces) : FormPair(pieces[j]).name = name}
    IN  IF hits = {} THEN Null
        ELSE Str(FormPair(pieces[CHOOSE j \in hits : \A k \in hits : j <= k]).value)

S_area == <<"a", "r", "e", "a">>
S_hashArea == <<"#", "a", "r", "e", "a", "=">>

\* The area the load handler reads from window.location.hash.
InitialArea(h) == UrlParamsGet(SubSeq(h, 2, Len(h)), S_area)

\* window.location.hash after the change handler has assigned it.
HashFor(selectedArea) ==
    IF selectedArea # <<>> THEN S_hashArea \o EncodeURIComponent(selectedArea) ELSE <<>>

\* The document the browser builds from a page: the data-area attribute of
\* each card and the value attribute of each option after "Kaikki alueet".
ParseDom(page) ==
    [loaded |-> TRUE,
     cardAreas |-> [i \in 1..Len(page.cards) |-> DecodeHtml(page.cards[i].dataArea.s)],
     options |-> [i \in 1..Len(page.areaOptions) |-> DecodeHtml(page.areaOptions[i])]]

\* The cards filterByArea(area) leaves without class "hidden".
Shown(d, area) == {i \in 1..Len(d.cardAreas) : area = <<>> \/ d.cardAreas[i] = area}

\* The option selected after the assignment areaFilter.value = v: the one of
\* that value, and none when no option has it.
AfterAssign(d, v) == IF \E i \in 1..Len(d.options) : d.options[i] = v THEN Str(v) ELSE Null

\* ------------------------------------------------------------------ main
VARIABLES
    variant,     \* which of the two variants of the script is deployed
    large,       \* whether the collection is one that has grown past the limit
    run,         \* number of invocations started so far
    env,         \* process environment of the deployment
    now,         \* wall clock
    pc,          \* position of main() in the current invocation
    inflight,    \* asynchronous operations started and not yet settled
    outcome,     \* how each awaited operation of this invocation settled
    store,       \* contents of lostItems when the query ran
    data,        \* value the fetchData promise resolved with: items and areas
    html,        \* the string generateHtml returned
    json,        \* the jsonData object
    distExists,  \* whether the dist directory exists
    indexHtml,   \* dist/index.html
    dataJson,    \* dist/data.json
    before,      \* the two files as the current invocation found them
    log,         \* console lines of the current invocation
    exitCode,    \* exit status of the current invocation, -1 while it runs
    fetchThrew,  \* whether the try block of fetchData threw in this invocation
    threw,       \* the step whose exception reached the catch block of main
    dom,         \* the document a browser has loaded from dist/index.html
    hash,        \* window.location.hash of that browser
    selectValue, \* value of the option selected in areaFilter, Null when none is
    hidden,      \* the cards (by position) that carry class "hidden"
    counter      \* text of #selectedAreaCount

\* The state of the browser showing the page.
browser == <<dom, hash, selectValue, hidden, counter>>

vars == <<variant, large, run, env, now, pc, inflight, outcome, store, data, html, json,
          distExists, indexHtml, dataJson, before, log, exitCode, fetchThrew, threw,
          browser>>

\* No document is loaded.
NoDom == [loaded |-> FALSE, cardAreas |-> <<>>, options |-> <<>>]

Ops == {"fetch", "mkdir", "writeHtml", "writeJson"}

NoOutcome == [op \in Ops |-> "none"]

\* Contents of a file of dist/: absent, written completely by invocation
\* `by`, or left partial by a writeFile of invocation `by` that failed after
\* the file was opened for writing.
Absent == [kind |-> "absent", by |-> 0, content |-> <<>>]
Partial(r) == [kind |-> "partial", by |-> r, content |-> <<>>]
Complete(r, c) == [kind |-> "complete", by |-> r, content |-> c]

\* The positions when the writeFile of index.html is not awaited: main goes
\* on to the data.json write at once.
AwaitPcHtmlNotAwaited(op) ==
    CASE op = "fetch" -> "awaitFetch"
      [] op = "mkdir" -> "awaitMkdir"
      [] op = "writeHtml" -> "callWriteJson"
      [] OTHER -> "awaitWriteJson"

\* The position at which main waits for an awaited operation.
AwaitPc(op) == CASE op = "fetch" -> "awaitFetch"
                 [] op = "mkdir" -> "awaitMkdir"
                 [] op = "writeHtml" -> "awaitWriteHtml"
                 [] OTHER -> "awaitWriteJson"

Terminated == pc \in {"done", "failed"}

\* Invocations observed: several against a small collection, one against a
\* large one.
RunLimit == IF large THEN 1 ELSE MaxRuns

InitCommon ==
    /\ variant \in {1, 2}
    /\ run = 0
    /\ env \in EnvPool
    /\ now = 0
    /\ pc = "idle"
    /\ inflight = {}
    /\ outcome = NoOutcome
    /\ store = {}
    /\ data = EmptyResult
    /\ html = <<>>
    /\ json = <<>>
    /\ distExists \in BOOLEAN
    /\ indexHtml = Absent
    /\ dataJson = Absent
    /\ before = [index |-> Absent, data |-> Absent]
    /\ log = <<>>
    /\ exitCode = -1
    /\ fetchThrew = FALSE
    /\ threw = "none"
    /\ dom = NoDom
    /\ hash = <<>>
    /\ selectValue = Null
    /\ hidden = {}
    /\ counter = 0

Init == InitCommon /\ large = FALSE

InitLarge == InitCommon /\ large = TRUE

\* The scheduler starts the script.  main logs, calls fetchData, which logs,
\* reads the credential and issues the query, and main awaits the promise.
\* With a rejected credential the try block throws before any query is sent
\* and the promise is already resolved with the empty result.
Invoke ==
    /\ pc = "idle" \/ Terminated
    /\ run < RunLimit
    /\ run' = run + 1
    /\ env' = env
    /\ html' = <<>>
    /\ json' = <<>>
    /\ exitCode' = -1
    /\ threw' = "none"
    /\ data' = EmptyResult
    /\ IF env.credOk
       THEN /\ inflight' = {"fetch"}
            /\ outcome' = NoOutcome
            /\ fetchThrew' = FALSE
            /\ log' = <<"Starting snapshot build", "Fetching data">>
       ELSE /\ inflight' = {}
            /\ outcome' = [NoOutcome EXCEPT !["fetch"] = "resolved"]
            /\ fetchThrew' = TRUE
            /\ log' = <<"Starting snapshot build", "Fetching data", "Error fetching">>
    /\ pc' = AwaitPc("fetch")
    /\ before' = [index |-> indexHtml, data |-> dataJson]
    /\ UNCHANGED <<browser, variant, large, now, store, distExists, indexHtml, dataJson>>

\* The query settles: it fails, or returns the snapshot, which fetchData
\* normalises.  Either way the fetchData promise resolves.
QuerySettles ==
    /\ "fetch" \in inflight
    /\ \/ /\ store' = store
          /\ data' = fetchData(<<>>, env, FALSE, variant)
          /\ fetchThrew' = TRUE
          /\ log' = Append(log, "Error fetching")
       \/ \E q \in (IF large THEN LargeQueries ELSE Queries) :
             /\ store' = q.store
             /\ data' = fetchData(q.snap, env, TRUE, variant)
             /\ fetchThrew' = FetchThrows(q.snap, env, TRUE)
             /\ log' = Append(log, IF FetchThrows(q.snap, env, TRUE)
                                   THEN "Error fetching" ELSE "Found items")
    /\ inflight' = inflight \ {"fetch"}
    /\ outcome' = [outcome EXCEPT !["fetch"] = "resolved"]
    /\ UNCHANGED <<browser, variant, large, run, env, now, pc, html, json, distExists, indexHtml,
                   dataJson, before, exitCode, threw>>

\* A catch block that logs the error and lets the process end normally.
FailWithoutExit(step) ==
    /\ log' = Append(log, "Build failed")
    /\ threw' = step
    /\ exitCode' = 0
    /\ pc' = "done"

\* The catch block of main: console.error("Build failed"), process.exit(1).
Fail(step) ==
    /\ log' = Append(log, "Build failed")
    /\ threw' = step
    /\ exitCode' = 1
    /\ pc' = "failed"

\* main resuming after a fetchData that rejects when its try block threw.
ResumeAfterFetchRethrown ==
    /\ pc = AwaitPc("fetch")
    /\ outcome["fetch"] # "none"
    /\ IF fetchThrew
       THEN /\ log' = Append(log, "Build failed")
            /\ threw' = "fetch"
            /\ exitCode' = 1
            /\ pc' = "failed"
       ELSE /\ pc' = "render"
            /\ UNCHANGED <<log, threw, exitCode>>
    /\ UNCHANGED <<browser, variant, large, run, env, now, inflight, outcome, store, data, html, json,
                   distExists, indexHtml, dataJson, before, fetchThrew>>

\* main resumes after await fetchData().
ResumeAfterFetch ==
    /\ pc = AwaitPc("fetch")
    /\ outcome["fetch"] # "none"
    /\ pc' = "render"
    /\ UNCHANGED <<browser, variant, large, run, env, now, inflight, outcome, store, data, html, json,
                   distExists, indexHtml, dataJson, before, log, exitCode, fetchThrew, threw>>

\* const html = generateHtml(...)
Render ==
    /\ pc = "render"
    /\ IF RenderThrows(data, variant)
       THEN /\ Fail("render")
            /\ html' = html
       ELSE /\ html' = generateHtml(data, now, env, variant)
            /\ pc' = "checkDir"
            /\ UNCHANGED <<log, threw, exitCode>>
    /\ UNCHANGED <<browser, variant, large, run, env, now, inflight, outcome, store, data, json,
                   distExists, indexHtml, dataJson, before, fetchThrew>>

\* if (!existsSync(distDir)) await mkdir(distDir, { recursive: true })
CheckDir ==
    /\ pc = "checkDir"
    /\ IF distExists
       THEN /\ pc' = "callWriteHtml"
            /\ inflight' = inflight
       ELSE /\ pc' = AwaitPc("mkdir")
            /\ inflight' = inflight \cup {"mkdir"}
    /\ UNCHANGED <<browser, variant, large, run, env, now, outcome, store, data, html, json,
                   distExists, indexHtml, dataJson, before, log, exitCode, fetchThrew, threw>>

MkdirSettles ==
    /\ "mkdir" \in inflight
    /\ inflight' = inflight \ {"mkdir"}
    /\ \E ok \in BOOLEAN :
          /\ outcome' = [outcome EXCEPT !["mkdir"] = IF ok THEN "ok" ELSE "fail"]
          /\ distExists' = ok
    /\ UNCHANGED <<browser, variant, large, run, env, now, pc, store, data, html, json,
                   indexHtml, dataJson, before, log, exitCode, fetchThrew, threw>>

ResumeAfterMkdir ==
    /\ pc = AwaitPc("mkdir")
    /\ outcome["mkdir"] # "none"
    /\ IF outcome["mkdir"] = "ok"
       THEN /\ pc' = "callWriteHtml"
            /\ UNCHANGED <<log, threw, exitCode>>
       ELSE Fail("mkdir")
    /\ UNCHANGED <<browser, variant, large, run, env, now, inflight, outcome, store, data, html, json,
                   distExists, indexHtml, dataJson, before, fetchThrew>>

\* await writeFile(outputPath, html, "utf-8")
CallWriteHtml ==
    /\ pc = "callWriteHtml"
    /\ inflight' = inflight \cup {"writeHtml"}
    /\ pc' = AwaitPc("writeHtml")
    /\ UNCHANGED <<browser, variant, large, run, env, now, outcome, store, data, html, json,
                   distExists, indexHtml, dataJson, before, log, exitCode, fetchThrew, threw>>

\* A writeFile that fails leaves the file as it was (it could not be opened)
\* or partial (it was opened and truncated before the failure).
WriteHtmlSettles ==
    /\ "writeHtml" \in inflight
    /\ inflight' = inflight \ {"writeHtml"}
    /\ \/ /\ outcome' = [outcome EXCEPT !["writeHtml"] = "ok"]
          /\ indexHtml' = Complete(run, html)
       \/ /\ outcome' = [outcome EXCEPT !["writeHtml"] = "fail"]
          /\ indexHtml' \in {indexHtml, Partial(run)}
    /\ UNCHANGED <<browser, variant, large, run, env, now, pc, store, data, html, json,
                   distExists, dataJson, before, log, exitCode, fetchThrew, threw>>

ResumeAfterWriteHtml ==
    /\ pc = AwaitPc("writeHtml")
    /\ outcome["writeHtml"] # "none"
    /\ IF outcome["writeHtml"] = "ok"
       THEN /\ pc' = "callWriteJson"
            /\ UNCHANGED <<log, threw, exitCode>>
       ELSE Fail("writeHtml")
    /\ UNCHANGED <<browser, variant, large, run, env, now, inflight, outcome, store, data, html, json,
                   distExists, indexHtml, dataJson, before, fetchThrew>>

\* const jsonData = {...}; await writeFile(".../data.json", JSON.stringify(jsonData))
CallWriteJson ==
    /\ pc = "callWriteJson"
    /\ json' = jsonData(data, now, env, variant)
    /\ inflight' = inflight \cup {"writeJson"}
    /\ pc' = AwaitPc("writeJson")
    /\ UNCHANGED <<browser, variant, large, run, env, now, outcome, store, data, html,
                   distExists, indexHtml, dataJson, before, log, exitCode, fetchThrew, threw>>

\* A write of data.json that keeps a complete file it finds.
WriteJsonSettlesKeepsExisting ==
    /\ "writeJson" \in inflight
    /\ inflight' = inflight \ {"writeJson"}
    /\ \/ /\ outcome' = [outcome EXCEPT !["writeJson"] = "ok"]
          /\ dataJson' = IF dataJson.kind = "complete" THEN dataJson ELSE Complete(run, json)
       \/ /\ outcome' = [outcome EXCEPT !["writeJson"] = "fail"]
          /\ dataJson' \in {dataJson, Partial(run)}
    /\ UNCHANGED <<browser, variant, large, run, env, now, pc, store, data, html, json,
                   distExists, indexHtml, before, log, exitCode, fetchThrew, threw>>

WriteJsonSettles ==
    /\ "writeJson" \in inflight
    /\ inflight' = inflight \ {"writeJson"}
    /\ \/ /\ outcome' = [outcome EXCEPT !["writeJson"] = "ok"]
          /\ dataJson' = Complete(run, json)
       \/ /\ outcome' = [outcome EXCEPT !["writeJson"] = "fail"]
          /\ dataJson' \in {dataJson, Partial(run)}
    /\ UNCHANGED <<browser, variant, large, run, env, now, pc, store, data, html, json,
                   distExists, indexHtml, before, log, exitCode, fetchThrew, threw>>

\* A main that writes data.json again when the write has failed.
ResumeAfterWriteJsonRetries ==
    /\ pc = AwaitPc("writeJson")
    /\ outcome["writeJson"] # "none"
    /\ IF outcome["writeJson"] = "ok"
       THEN /\ log' = Append(log, "Build completed")
            /\ pc' = "done"
            /\ exitCode' = 0
            /\ threw' = threw
       ELSE /\ pc' = "callWriteJson"
            /\ UNCHANGED <<log, threw, exitCode>>
    /\ UNCHANGED <<browser, variant, large, run, env, now, inflight, outcome, store, data, html, json,
                   distExists, indexHtml, dataJson, before, fetchThrew>>

\* After the second write main logs the summary and returns; the process
\* then ends with status 0.
ResumeAfterWriteJson ==
    /\ pc = AwaitPc("writeJson")
    /\ outcome["writeJson"] # "none"
    /\ IF outcome["writeJson"] = "ok"
       THEN /\ log' = Append(log, "Build completed")
            /\ pc' = "done"
            /\ exitCode' = 0
            /\ threw' = threw
       ELSE Fail("writeJson")
    /\ UNCHANGED <<browser, variant, large, run, env, now, inflight, outcome, store, data, html, json,
                   distExists, indexHtml, dataJson, before, fetchThrew>>

\* Time passes while main is suspended.
Tick ==
    /\ pc \in {AwaitPc(op) : op \in Ops}
    /\ now < MaxClock
    /\ now' = now + 1
    /\ UNCHANGED <<browser, variant, large, run, env, pc, inflight, outcome, store, data, html, json,
                   distExists, indexHtml, dataJson, before, log, exitCode, fetchThrew, threw>>

\* The steps of one invocation.
Step ==
    \/ QuerySettles
    \/ ResumeAfterFetch
    \/ Render
    \/ CheckDir
    \/ MkdirSettles
    \/ ResumeAfterMkdir
    \/ CallWriteHtml
    \/ WriteHtmlSettles
    \/ ResumeAfterWriteHtml
    \/ CallWriteJson
    \/ WriteJsonSettles
    \/ ResumeAfterWriteJson

Next == Invoke \/ Step \/ Tick

Spec == Init /\ [][Next]_vars

\* Every started operation settles and a runnable continuation runs.
FairSpec == Spec /\ WF_vars(Step)

\* One invocation against a collection that may hold more than the limit.
LargeSpec == InitLarge /\ [][Next]_vars

\* --------------------------------------------------------- the browser
\* The fragments a visitor may open the page with or type into the address
\* bar: none, an area that no item has, an empty area, an area after another
\* parameter, an area written without encodeURIComponent, and the fragments
\* the change handler writes.
FragmentPool ==
    { <<>>,
      <<"#", "a", "r", "e", "a", "=", "N", "o", "w", "h", "e", "r", "e">>,
      <<"#", "a", "r", "e", "a", "=">>,
      <<"#", "x", "=", "1", "&", "a", "r", "e", "a", "=", "K", "u", "m", "p", "u", "l", "a">>,
      <<"#", "a", "r", "e", "a", "=", "A", "&", "B">> }
    \cup {HashFor(a) : a \in {<<"K", "u", "m", "p", "u", "l", "a">>, <<"A", "&", "B">>,
                              S_Tuntematon}}

\* dist/ after one successful build of the second variant, no browser open.
ClientInit ==
    /\ variant = 2
    /\ large = FALSE
    /\ run = 1
    /\ env \in EnvPool
    /\ now = 0
    /\ pc = "done"
    /\ inflight = {}
    /\ outcome = [NoOutcome EXCEPT !["fetch"] = "resolved", !["writeHtml"] = "ok",
                                   !["writeJson"] = "ok"]
    /\ \E q \in Queries :
          /\ store = q.store
          /\ data = fetchData(q.snap, env, TRUE, 2)
          /\ fetchThrew = FetchThrows(q.snap, env, TRUE)
    /\ ~RenderThrows(data, 2)
    /\ html = generateHtml(data, now, env, 2)
    /\ json = jsonData(data, now, env, 2)
    /\ distExists = TRUE
    /\ indexHtml = Complete(run, html)
    /\ dataJson = Complete(run, json)
    /\ before = [index |-> Absent, data |-> Absent]
    /\ log = <<"Starting snapshot build", "Fetching data",
               IF fetchThrew THEN "Error fetching" ELSE "Found items", "Build completed">>
    /\ exitCode = 0
    /\ threw = "none"
    /\ dom = NoDom
    /\ hash = <<>>
    /\ selectValue = Null
    /\ hidden = {}
    /\ counter = 0

build == <<variant, large, run, env, now, pc, inflight, outcome, store, data, html, json,
           distExists, indexHtml, dataJson, before, log, exitCode, fetchThrew, threw>>

\* A visitor opens dist/index.html with fragment h; the DOMContentLoaded
\* handler runs.  Without an area in the fragment the page stays as served:
\* the first option selected, no card hidden, the counter as rendered.
Load ==
    /\ variant = 2
    /\ indexHtml.kind = "complete"
    /\ \E h \in FragmentPool :
          LET d == ParseDom(indexHtml.content)
              initialArea == InitialArea(h)
          IN  /\ dom' = d
              /\ hash' = h
              /\ IF Truthy(initialArea)
                 THEN /\ selectValue' = AfterAssign(d, initialArea.s)
                      /\ hidden' = (1..Len(d.cardAreas)) \ Shown(d, initialArea.s)
                      /\ counter' = Cardinality(Shown(d, initialArea.s))
                 ELSE /\ selectValue' = Str(<<>>)
                      /\ hidden' = {}
                      /\ counter' = indexHtml.content.selectedAreaCount
    /\ UNCHANGED build

\* The visitor selects another option; the change handler filters the cards
\* and assigns window.location.hash.
SelectionChanges ==
    /\ dom.loaded
    /\ \E o \in {<<>>} \cup Range(dom.options) :
          /\ Str(o) # selectValue
          /\ selectValue' = Str(o)
          /\ hidden' = (1..Len(dom.cardAreas)) \ Shown(dom, o)
          /\ counter' = Cardinality(Shown(dom, o))
          /\ hash' = HashFor(o)
    /\ UNCHANGED <<build, dom>>

\* The visitor changes the fragment in the address bar of the loaded page.
\* The page is not loaded again and the script has no hashchange listener.
FragmentChanges ==
    /\ dom.loaded
    /\ \E h \in FragmentPool : h # hash /\ hash' = h
    /\ UNCHANGED <<build, dom, selectValue, hidden, counter>>

ClientNext == Load \/ SelectionChanges \/ FragmentChanges

\* The page of one build in a browser.
ClientSpec == ClientInit /\ [][ClientNext]_vars

\* ---------------------------------------------------------------- claims
Rendered == DOMAIN html # {}
JsonBuilt == DOMAIN json # {}
Logged(line) == \E i \in 1..Len(log) : log[i] = line
FetchResolved == outcome["fetch"] = "resolved"

\* The rejection of an awaited operation has reached main.
Rejected(op) == outcome[op] = "fail" /\ pc # AwaitPc(op)

\* generateHtml has been called in this invocation and threw.
RenderThrew == Terminated /\ FetchResolved /\ ~Rendered /\ RenderThrows(data, variant)

SomethingThrew == RenderThrew \/ \E op \in {"mkdir", "writeHtml", "writeJson"} : Rejected(op)

\* C1: when the try block of fetchData throws (credential, query or
\* normalisation), fetchData resolves with the empty item list and the empty
\* area list; generateHtml then does not throw and gives the empty-state page;
\* and unless the directory creation or a file write fails, the invocation
\* writes that page to index.html and items = [] to data.json and ends with
\* status 0, never with status 1.
C1_FetchFailureDegrades ==
    fetchThrew /\ FetchResolved =>
        /\ data = EmptyResult
        /\ ~RenderThrew
        /\ Rendered => html.emptyState /\ html.cards = <<>>
        /\ JsonBuilt => json.items = <<>> /\ json.areas = <<>>
        /\ Terminated /\ ~SomethingThrew =>
              /\ exitCode = 0
              /\ indexHtml = Complete(run, html)
              /\ dataJson = Complete(run, json)
        /\ exitCode = 1 => SomethingThrew

C1_Witness ==
    /\ fetchThrew
    /\ store # {}
    /\ pc = "done"
    /\ indexHtml.kind = "complete" /\ indexHtml.by = run /\ indexHtml.content.emptyState
    /\ dataJson.kind = "complete" /\ dataJson.by = run /\ dataJson.content.items = <<>>

\* C2: when generateHtml, mkdir or one of the two writeFile calls throws,
\* main logs "Build failed", the process ends with status 1, and the
\* invocation does not log "Build completed".
C2_WriteFailureExits1 ==
    SomethingThrew =>
        /\ pc = "failed"
        /\ exitCode = 1
        /\ Logged("Build failed")
        /\ ~Logged("Build completed")

C2_Witness == RenderThrew /\ exitCode = 1 /\ run = 2 /\ before.data.kind = "complete"

Running == pc \notin {"idle", "done", "failed"}

C3_Outcome ==
    /\ exitCode \in {-1, 0, 1}
    /\ pc = "done" <=> exitCode = 0
    /\ pc = "failed" <=> exitCode = 1
    /\ exitCode = 0 =>
          /\ outcome["writeHtml"] = "ok" /\ indexHtml = Complete(run, html)
          /\ outcome["writeJson"] = "ok" /\ dataJson = Complete(run, json)
    /\ exitCode = 1 => SomethingThrew

\* C3: every invocation ends, with status 0 or with status 1 and no other
\* way; status 0 is reached only after index.html and data.json have both
\* been written by this invocation; status 1 is reached only when
\* generateHtml, mkdir or a writeFile threw (a failed fetch alone never gives
\* status 1).
C3_EveryInvocationEnds == []C3_Outcome /\ (Running ~> Terminated)

C3_Witness == run = 2 /\ exitCode = 0 /\ before.index.kind = "partial"

\* The order of the steps of one invocation, and one operation in flight at
\* a time.
C4_Sequential ==
    /\ pc = "render" \/ Rendered => FetchResolved /\ "fetch" \notin inflight
    /\ "mkdir" \in inflight \/ outcome["mkdir"] # "none" => Rendered
    /\ "writeHtml" \in inflight \/ outcome["writeHtml"] # "none" =>
          Rendered /\ distExists /\ outcome["mkdir"] \in {"none", "ok"}
    /\ "writeJson" \in inflight \/ outcome["writeJson"] # "none" =>
          outcome["writeHtml"] = "ok"
    /\ Cardinality(inflight) <= 1
    /\ inflight # {} => pc \in {AwaitPc(op) : op \in inflight}

\* C4 as stated: the steps are sequential, at most one of the fetch and the
\* two writes is in progress at a time, and main is suspended only at the
\* fetch and at the two writes.
C4_SuspendsOnlyAtFetchAndWrites ==
    /\ C4_Sequential
    /\ inflight \subseteq {"fetch", "writeHtml", "writeJson"}
    /\ pc \in {"awaitFetch", "awaitMkdir", "awaitWriteHtml", "awaitWriteJson"} =>
          pc \in {"awaitFetch", "awaitWriteHtml", "awaitWriteJson"}

\* C4, amended: rendering starts only after the fetch has completed, the
\* index.html write only after rendering and the directory check (and the
\* creation of the directory, when it was absent) have completed, the
\* data.json write only after the index.html write has succeeded; at most one
\* operation is in flight at a time; and main is suspended only at the
\* fetch, at the mkdir of an absent directory and at the two writes.
C4_SuspendsAtFetchMkdirAndWrites ==
    /\ C4_Sequential
    /\ "mkdir" \in inflight => pc = "awaitMkdir"
    /\ pc = "awaitMkdir" => ~distExists \/ outcome["mkdir"] = "ok"
    /\ Running /\ pc \notin {"awaitFetch", "awaitMkdir", "awaitWriteHtml", "awaitWriteJson"}
          => inflight = {}

C4_Witness == pc = "awaitMkdir" /\ inflight = {"mkdir"} /\ Rendered

\* The ids of a list of items, cards or JSON entries, in order.
ItemIds(items) == [i \in 1..Len(items) |-> items[i].id]
CardIds(cards) == [i \in 1..Len(cards) |-> cards[i].dataId]

\* C5: when the most recent invocation ended with status 0, index.html and
\* data.json were both written by that invocation and hold exactly the cards
\* and the entries of the items it fetched, in order; an item of the
\* data.json the invocation found that is not among the fetched items is in
\* neither file.
C5_LatestBuildOnly ==
    pc = "done" =>
        /\ indexHtml.kind = "complete" /\ indexHtml.by = run
        /\ dataJson.kind = "complete" /\ dataJson.by = run
        /\ indexHtml.content.cards = [i \in 1..Len(data.items) |-> Card(data.items[i], variant)]
        /\ dataJson.content.items = [i \in 1..Len(data.items) |-> JsonItem(data.items[i], variant)]
        /\ Range(ItemIds(data.items)) \subseteq {d.id : d \in store}
        /\ before.data.kind = "complete" =>
              \A id \in Range(ItemIds(before.data.content.items)) \ Range(ItemIds(data.items)) :
                  /\ id \notin Range(CardIds(indexHtml.content.cards))
                  /\ id \notin Range(ItemIds(dataJson.content.items))

C5_Witness ==
    /\ pc = "done"
    /\ run = 2
    /\ before.data.kind = "complete"
    /\ data.items # <<>>
    /\ Range(ItemIds(before.data.content.items)) \ Range(ItemIds(data.items)) # {}

\* C6: for the N items one build handles, the page has exactly N cards, the
\* empty-state message stands in place of the cards exactly when N = 0, and
\* the items array of data.json has N entries whose ids are the data-id
\* values of the cards.
C6_CardsMatchItems ==
    /\ Rendered =>
          /\ Len(html.cards) = Len(data.items)
          /\ html.emptyState <=> Len(data.items) = 0
          /\ html.emptyState => html.cards = <<>>
    /\ Rendered /\ JsonBuilt =>
          /\ Len(json.items) = Len(data.items)
          /\ Len(json.items) = Len(html.cards)
          /\ Range(ItemIds(json.items)) = Range(CardIds(html.cards))
    /\ pc = "done" =>
          /\ Len(dataJson.content.items) = Len(indexHtml.content.cards)
          /\ Range(ItemIds(dataJson.content.items)) = Range(CardIds(indexHtml.content.cards))

C6_Witness ==
    /\ pc = "done"
    /\ Len(data.items) = 4
    /\ Len(indexHtml.content.cards) = 4
    /\ Len(dataJson.content.items) = 4

\* The documents of the collection, as the query found it, whose stored
\* status is APPROVED or RESOLVED.
Matching == {d \in store : d.data.status.s \in {S_APPROVED, S_RESOLVED}}

\* C7: when fetchData does not throw, its item list holds, without
\* repetition, the first QueryLimit (or all, if fewer) documents of lostItems
\* whose stored status is APPROVED or RESOLVED, in descending order of the
\* stored timestamp; the list never exceeds QueryLimit items, and no item of
\* another status is in index.html or data.json.
C7_QueryContract ==
    /\ Len(data.items) <= QueryLimit
    /\ FetchResolved /\ ~fetchThrew =>
          /\ Len(data.items) = IF Cardinality(Matching) < QueryLimit
                               THEN Cardinality(Matching) ELSE QueryLimit
          /\ Cardinality(Range(ItemIds(data.items))) = Len(data.items)
          /\ \A i \in 1..Len(data.items) :
                \E d \in Matching : /\ d.id = data.items[i].id
                                    /\ data.items[i].timestamp = Iso(d.data.timestamp)
                                    /\ data.items[i].status = d.data.status
          /\ \A i \in 1..(Len(data.items) - 1) :
                data.items[i].timestamp.iso >= data.items[i + 1].timestamp.iso
          /\ \A d \in Matching :
                d.id \notin Range(ItemIds(data.items)) =>
                    \A i \in 1..Len(data.items) : data.items[i].timestamp.iso >= d.data.timestamp
    /\ Rendered => Range(CardIds(html.cards)) \subseteq {d.id : d \in Matching}
    /\ indexHtml.kind = "complete" =>
          \A i \in 1..Len(indexHtml.content.cards) :
              indexHtml.content.cards[i].statusLabel \in {S_Avoin, S_Ratkaistu}
              /\ indexHtml.content.cards[i].statusClass \in
                    {<<"s", "t", "a", "t", "u", "s", "-">> \o S_approved,
                     <<"s", "t", "a", "t", "u", "s", "-">> \o S_resolved}
    /\ dataJson.kind = "complete" =>
          \A i \in 1..Len(dataJson.content.items) :
              dataJson.content.items[i].status.s \in {S_APPROVED, S_RESOLVED}

C7_Witness ==
    /\ pc = "done"
    /\ Cardinality(Matching) > QueryLimit
    /\ Cardinality(store \ Matching) > 0
    /\ Len(dataJson.content.items) = QueryLimit
    /\ Len(indexHtml.content.cards) = QueryLimit

\* Whether one of the five entities stands at position i of s.
EntityAt(s, i) ==
    \E e \in {S_amp, S_lt, S_gt, S_quot, S_apos} :
        i + Len(e) - 1 <= Len(s) /\ SubSeq(s, i, i + Len(e) - 1) = e

\* None of < > " ' occurs in s, and every & of s begins an entity.
OnlyEntities(s) ==
    \A i \in 1..Len(s) :
        /\ s[i] \notin {"<", ">", "\"", "'"}
        /\ s[i] = "&" => EntityAt(s, i)

C9_DescriptionTruncation ==
    Rendered =>
        \A i \in 1..Len(html.cards) :
            html.cards[i].description =
                IF Len(data.items[i].description.s) > DescMaxLength
                THEN escapeHtml(Str(SubSeq(data.items[i].description.s, 1, DescMaxLength)))
                        \o S_ellipsis
                ELSE escapeHtml(data.items[i].description)

\* The reference without the prefix p, when it begins with p.
StripPrefix(s, p) ==
    IF Len(s) >= Len(p) /\ SubSeq(s, 1, Len(p)) = p
    THEN SubSeq(s, Len(p) + 1, Len(s))
    ELSE s

\* C10: the imageUrl of every item is null when the document has no image
\* reference, the stored reference when it contains "http", and otherwise
\* the base URL, the public path of the bucket and the reference with the
\* prefix "lost-items/" stripped.
C10_ImageUrlResolution ==
    FetchResolved /\ ~fetchThrew =>
        \A i \in 1..Len(data.items) :
            \E d \in store :
                /\ d.id = data.items[i].id
                /\ data.items[i].imageUrl =
                      IF ~Truthy(d.data.imageUrl1) THEN Null
                      ELSE IF Includes(d.data.imageUrl1.s, S_http) THEN d.data.imageUrl1
                      ELSE Str(ToStr(env.SUPABASE_URL) \o S_storagePath
                               \o StripPrefix(d.data.imageUrl1.s, S_lostItemsPrefix))

\* The documented default of each defaulted field.
FieldDefault ==
    [title |-> Str(S_EiNimea), description |-> Str(<<>>), area |-> Str(S_Tuntematon),
     category |-> Str(S_OTHER), status |-> Str(S_APPROVED)]

\* C11: each of title, description, area, category and status of a
\* normalised item is the documented default when the stored value is missing
\* or falsy and the stored value otherwise, and is never null or undefined;
\* and a document makes the normalisation throw only by a field it has (a
\* truthy imageUrl1 that is no string), never by a field it lacks.
C11_FieldDefaults ==
    /\ FetchResolved /\ ~fetchThrew =>
          \A i \in 1..Len(data.items) :
              \E d \in store :
                  /\ d.id = data.items[i].id
                  /\ \A f \in DOMAIN FieldDefault :
                        /\ data.items[i][f] = IF Truthy(d.data[f]) THEN d.data[f]
                                              ELSE FieldDefault[f]
                        /\ data.items[i][f].t \notin {"undef", "null"}
    /\ FetchResolved /\ fetchThrew =>
          \A d \in store : NormaliseThrows(d) => d.data.imageUrl1.t \notin {"undef", "null"}

C11_Witness ==
    /\ pc = "done"
    /\ ~fetchThrew
    /\ \E i \in 1..Len(data.items) : \E d \in store :
          /\ d.id = data.items[i].id
          /\ d.data.title = Undef /\ data.items[i].title = Str(S_EiNimea)
          /\ d.data.area = Null /\ data.items[i].area = Str(S_Tuntematon)
          /\ d.data.category = Undef /\ data.items[i].category = Str(S_OTHER)
          /\ Truthy(d.data.description) /\ data.items[i].description = d.data.description

\* The area values of a list of items.
ItemAreas(items) == {items[i].area : i \in 1..Len(items)}

\* C12: in the second variant the area list fetchData returns holds exactly
\* the distinct area values of the items, each once, none of them empty, in
\* ascending order; the filter options of the page are these areas in this
\* order, and so is the areas entry of data.json.
C12_AreaList ==
    variant = 2 /\ FetchResolved =>
        /\ Range(data.areas) = ItemAreas(data.items)
        /\ Cardinality(Range(data.areas)) = Len(data.areas)
        /\ \A i \in 1..Len(data.areas) : data.areas[i].t = "str" /\ data.areas[i].s # <<>>
        /\ \A i \in 1..(Len(data.areas) - 1) :
              StrLess(data.areas[i].s, data.areas[i + 1].s)
        /\ Rendered =>
              /\ Len(html.areaOptions) = Len(data.areas)
              /\ \A i \in 1..Len(data.areas) : html.areaOptions[i] = escapeHtml(data.areas[i])
              /\ html.uniqueAreas = Cardinality(ItemAreas(data.items))
        /\ JsonBuilt => json.areas = data.areas
        /\ pc = "done" =>
              /\ dataJson.content.areas = data.areas
              /\ Len(indexHtml.content.areaOptions) = Cardinality(ItemAreas(data.items))

C12_Witness ==
    /\ variant = 2
    /\ pc = "done"
    /\ Len(data.areas) = 3
    /\ Len(data.items) = 4
    /\ dataJson.content.areas = data.areas
    /\ indexHtml.content.areaOptions[1] = <<"A", "&", "a", "m", "p", ";", "B">>

\* The Build ID of the page footer is the buildId of data.json: the
\* configured identifier, or "local" when none is configured.
SharedBuildId ==
    pc = "done" =>
        /\ indexHtml.content.buildId = dataJson.content.buildId
        /\ dataJson.content.buildId =
              IF Truthy(env.BUILD_TIMESTAMP) THEN env.BUILD_TIMESTAMP.s ELSE S_local

\* C13: the build time stamped into index.html and the timestamp of
\* data.json written by the same invocation are the same instant, and the two
\* files carry the same buildId.
C13_SharedTimestampAndBuildId ==
    /\ SharedBuildId
    /\ pc = "done" => Iso(indexHtml.content.date) = dataJson.content.timestamp

\* C14: generateHtml is a function of its argument alone: called on the item
\* list and area list it was called on, at any time and in any process
\* environment, it returns the page it returned.
C14_GenerateHtmlPure ==
    Rendered =>
        \A t \in 0..MaxClock : \A e \in EnvPool :
            generateHtml(data, t, e, variant) = html

\* The cards the browser shows, and the area selected in the list ("" when
\* the list shows "Kaikki alueet" or no option).
Visible == (1..Len(dom.cardAreas)) \ hidden
SelectedArea == IF selectValue = Null THEN <<>> ELSE selectValue.s

\* The counter of the page is the number of cards shown.
CounterCountsVisible == dom.loaded => counter = Cardinality(Visible)

\* C15: once the page is loaded, with any fragment, and after any selection
\* changes, the cards shown are exactly the cards of the area selected in the
\* area list, all cards when no area is selected, and the counter is the
\* number of cards shown.
C15_FilterShowsSelectedArea ==
    /\ CounterCountsVisible
    /\ dom.loaded =>
          Visible = {i \in 1..Len(dom.cardAreas) :
                        SelectedArea = <<>> \/ dom.cardAreas[i] = SelectedArea}

\* The area the fragment names, "" when it names none.
FragmentArea == IF Truthy(InitialArea(hash)) THEN InitialArea(hash).s ELSE <<>>

\* C16: the selection and the fragment agree: after a selection change the
\* fragment names the selected area (none for all areas), after a load the
\* selected area and the cards shown are those the fragment names, and so
\* they are after a later change of the fragment.
C16_FragmentSync ==
    dom.loaded =>
        /\ Visible = Shown(dom, FragmentArea)
        /\ FragmentArea \in {<<>>} \cup Range(dom.options) => selectValue = Str(FragmentArea)

\* An operation is started in a step.
Starts(op) == op \notin inflight /\ op \in inflight'

\* Within one invocation an operation is started only when it has not been
\* attempted yet, and its outcome, once known, stays.
AttemptedOnce ==
    \A op \in {"fetch", "writeHtml", "writeJson"} :
        /\ Starts(op) => run' = run + 1 \/ outcome[op] = "none"
        /\ run' = run /\ outcome[op] # "none" => outcome'[op] = outcome[op]

\* C17 as stated: when the data.json write fails after the index.html write
\* succeeded, the process ends with status 1, the index.html of this
\* invocation stays and data.json is as it was before the invocation.
C17_FailedWriteLeavesDataJson ==
    Rejected("writeJson") =>
        /\ exitCode = 1
        /\ indexHtml = Complete(run, html)
        /\ dataJson = before.data

\* What a failed write leaves behind: nothing is retried or cleaned up.
NoCleanup ==
    /\ \A op \in Ops : op \in inflight => outcome[op] = "none"
    /\ Rejected("writeHtml") =>
          /\ exitCode = 1
          /\ indexHtml \in {before.index, Partial(run)}
          /\ dataJson = before.data
          /\ outcome["writeJson"] = "none"
    /\ Rejected("writeJson") =>
          /\ exitCode = 1
          /\ indexHtml = Complete(run, html)
          /\ dataJson \in {before.data, Partial(run)}

\* C17, amended: within one invocation the fetch and each of the two writes
\* is attempted at most once; when the index.html write fails, index.html is
\* as before the invocation or partial and data.json is untouched; when the
\* data.json write fails after the index.html write succeeded, the process
\* ends with status 1, the new index.html stays, and data.json is as it was
\* before the invocation or partial (writeFile is not atomic).
C17_NoRetryNoCleanup == []NoCleanup /\ [][AttemptedOnce]_vars

C17_Witness ==
    /\ run = 2
    /\ Rejected("writeJson")
    /\ exitCode = 1
    /\ indexHtml.kind = "complete" /\ indexHtml.by = 2
    /\ dataJson.kind = "complete" /\ dataJson.by = 1
    /\ indexHtml.content.cards # before.index.content.cards

\* C18: when the normalisation of one returned document throws, fetchData
\* returns the empty item list and the empty area list, whatever it had
\* normalised before; a non-empty item list holds every document the query
\* returned, in order.
C18_AllOrNothing ==
    FetchResolved =>
        /\ fetchThrew => data = EmptyResult
        /\ (\E d \in Range(QuerySnapshot(store)) : NormaliseThrows(d)) => data = EmptyResult
        /\ data.items # <<>> => ItemIds(data.items) = ItemIds(QuerySnapshot(store))

C18_Witness ==
    /\ pc = "done"
    /\ fetchThrew
    /\ Len(QuerySnapshot(store)) = 2
    /\ ~NormaliseThrows(QuerySnapshot(store)[1])
    /\ NormaliseThrows(QuerySnapshot(store)[2])
    /\ data = EmptyResult
    /\ dataJson = Complete(run, json) /\ json.items = <<>>

\* C19: the other values of a document that the card template prints, the
\* id (data-id and #id), the category (data-category and the label of an
\* unmapped category), the status (class name) and the imageUrl (img src),
\* hold none of the characters & < > " ' other than as an entity.
C19_AllValuesEscaped ==
    Rendered =>
        \A i \in 1..Len(html.cards) :
            /\ OnlyEntities(html.cards[i].dataId)
            /\ OnlyEntities(html.cards[i].idText)
            /\ OnlyEntities(html.cards[i].dataCategory)
            /\ OnlyEntities(html.cards[i].categoryName)
            /\ OnlyEntities(html.cards[i].statusClass)
            /\ html.cards[i].imgSrc # Null => OnlyEntities(html.cards[i].imgSrc.s)

====
